---- MODULE Spec2Model ----
(***************************************************************************)
(* The four-state protein binding / unfolding network of                   *)
(* examples/protein_binding_unfolding_4state_model.ipynb: its substances,  *)
(* its five reactions, the linear invariants that follow from the          *)
(* compositions, and the reduced systems obtained by eliminating species.  *)
(* Concentrations are counted in integer units and a reaction event moves  *)
(* one unit along the reaction's stoichiometry.                            *)
(***************************************************************************)
EXTENDS Integers, Sequences, FiniteSets, TLC

VARIABLES
    c0,         \* integration: the initial amounts
    c,          \* integration: the amounts of the full system
    yLN,        \* integration: the free amounts of the system without L, N
    yLA,        \* integration: the free amounts of the system without L, A
    factory,    \* reduction: the callback made by linear_dependencies
    y0,         \* reduction: the caller's mapping of substances to initial symbols
    results,    \* reduction: what the calls of the callback returned, in order
    psys,       \* reduction: the partially solved system built from the callback
    odesys_jac, \* reduction: what jacobian_singular said of the full system
    cand,       \* construction: the substances and reactions handed in
    rsys,       \* construction: the reaction system made of them
    invs,       \* construction: the invariants read off the reaction system
    params,     \* rates: the parameter mapping of the notebook
    params_c0,  \* rates: default_c0 copied and updated with params
    rates,      \* rates: the rates the last run of the printing cell got to
    err         \* rates: the exception the last cell run ended with

vars == <<c0, c, yLN, yLA, factory, y0, results, psys, odesys_jac, cand, rsys, invs,
          params, params_c0, rates, err>>
intVars == <<c0, c, yLN, yLA>>
redVars == <<factory, y0, results, psys, odesys_jac>>
netVars == <<cand, rsys, invs>>
rateVars == <<params, params_c0, rates, err>>

\* Largest initial amount of one substance.
MaxC0 == 2
\* Largest number of substances asked to be eliminated.
MaxElim == 3
\* Largest number of calls of one callback.
MaxCalls == 2
\* Largest count of one component in a candidate substance.
MaxCount == 1
\* Largest magnitude of a temperature, in units of its sign.
MaxTemp == 2
\* Largest number of names of the parameter literal left out of params.
MaxMissing == 1

-----------------------------------------------------------------------------
(* Small integer linear algebra: matrices are sequences of rows.           *)

RECURSIVE SumSeq(_)
SumSeq(s) == IF s = <<>> THEN 0 ELSE Head(s) + SumSeq(Tail(s))

RECURSIVE SortedSeq(_)
SortedSeq(S) ==
    IF S = {} THEN <<>>
    ELSE LET m == CHOOSE x \in S : \A y \in S : x <= y
         IN <<m>> \o SortedSeq(S \ {m})

\* The matrix M without row 1 and without column j.
Minor(M, j) ==
    [i \in 1..(Len(M) - 1) |->
        [k \in 1..(Len(M) - 1) |-> IF k < j THEN M[i + 1][k] ELSE M[i + 1][k + 1]]]

RECURSIVE Det(_)
Det(M) ==
    IF Len(M) = 0 THEN 1
    ELSE SumSeq([j \in 1..Len(M) |->
            IF M[1][j] = 0 THEN 0
            ELSE (IF j % 2 = 1 THEN 1 ELSE -1) * M[1][j] * Det(Minor(M, j))])

\* Rows R and columns C (index sets) of M, in increasing order.
SubMatrix(M, R, C) ==
    LET rs == SortedSeq(R)
        cs == SortedSeq(C)
    IN [i \in 1..Len(rs) |-> [j \in 1..Len(cs) |-> M[rs[i]][cs[j]]]]

NCols(M) == IF Len(M) = 0 THEN 0 ELSE Len(M[1])

\* The rank: the size of the largest square sub-matrix with a non-zero determinant.
Rank(M) ==
    LET sizes == {k \in 0..Len(M) :
                    \E R \in SUBSET (1..Len(M)) : \E C \in SUBSET (1..NCols(M)) :
                        /\ Cardinality(R) = k
                        /\ Cardinality(C) = k
                        /\ Det(SubMatrix(M, R, C)) # 0}
    IN CHOOSE k \in sizes : \A l \in sizes : l <= k

-----------------------------------------------------------------------------
(* Substances and reactions.                                                *)

\* The substances, in the insertion order of the OrderedDict.
Species == <<"N", "U", "A", "L", "NL">>
SpeciesSet == {Species[i] : i \in 1..Len(Species)}
Index(s) == CHOOSE i \in 1..Len(Species) : Species[i] = s

Components == <<"protein", "ligand">>

\* NL entered without its ligand.
substances_NL_without_ligand ==
    [N  |-> [protein |-> 1, ligand |-> 0],
     U  |-> [protein |-> 1, ligand |-> 0],
     A  |-> [protein |-> 1, ligand |-> 0],
     L  |-> [protein |-> 0, ligand |-> 1],
     NL |-> [protein |-> 1, ligand |-> 0]]

substances ==
    [N  |-> [protein |-> 1, ligand |-> 0],
     U  |-> [protein |-> 1, ligand |-> 0],
     A  |-> [protein |-> 1, ligand |-> 0],
     L  |-> [protein |-> 0, ligand |-> 1],
     NL |-> [protein |-> 1, ligand |-> 1]]

\* A set of substance names as stoichiometry: each member once.
Stoich(S) == [s \in SpeciesSet |-> IF s \in S THEN 1 ELSE 0]

Reaction(reac, prod, inact_reac, inact_prod, name) ==
    [reac |-> Stoich(reac), prod |-> Stoich(prod),
     inact_reac |-> Stoich(inact_reac), inact_prod |-> Stoich(inact_prod),
     name |-> name]

\* The dissociation entered without the ligand it releases.
eq_dis_without_L == Reaction({"NL"}, {"N"}, {}, {}, "ligand-protein dissociation")
\* The aggregation entered with its reactant and its product exchanged.
r_agg_reversed == Reaction({"A"}, {"U"}, {"L"}, {"L"}, "protein aggregation")
\* The aggregation entered with its spectator on the reactant side only.
r_agg_consuming_L == Reaction({"U"}, {"A"}, {"L"}, {}, "protein aggregation")

eq_dis == Reaction({"NL"}, {"N", "L"}, {}, {}, "ligand-protein dissociation")
eq_u   == Reaction({"N"}, {"U"}, {"L"}, {"L"}, "protein unfolding")
r_agg  == Reaction({"U"}, {"A"}, {"L"}, {"L"}, "protein aggregation")

\* An equilibrium as its forward reaction and its backward reaction.
as_reactions(eq, new_name) ==
    <<eq,
      [reac |-> eq.prod, prod |-> eq.reac,
       inact_reac |-> eq.inact_prod, inact_prod |-> eq.inact_reac,
       name |-> new_name]>>

\* The reaction list entered without the irreversible aggregation.
rxns_without_r_agg ==
    as_reactions(eq_dis, "ligand-protein association")
    \o as_reactions(eq_u, "protein folding")

rxns ==
    as_reactions(eq_dis, "ligand-protein association")
    \o as_reactions(eq_u, "protein folding")
    \o <<r_agg>>

all_reac(r) == [s \in SpeciesSet |-> r.reac[s] + r.inact_reac[s]]
all_prod(r) == [s \in SpeciesSet |-> r.prod[s] + r.inact_prod[s]]
net_stoich(r) == [s \in SpeciesSet |-> all_prod(r)[s] - all_reac(r)[s]]

\* Whether every reaction's two sides, spectators included, hold the same
\* amount of every component.
composition_violation(subst, r) ==
    [k \in 1..Len(Components) |->
        SumSeq([j \in 1..Len(Species) |->
            net_stoich(r)[Species[j]] * subst[Species[j]][Components[k]]])]

-----------------------------------------------------------------------------
(* Invariants and reduction.                                                *)

\* One row for each component, one column for each substance.
composition_balance_vectors(subst) ==
    [k \in 1..Len(Components) |->
        [j \in 1..Len(Species) |-> subst[Species[j]][Components[k]]]]

\* Every component's row taken as an invariant of its own.
LinearInvariants_every_row(A) == A

\* The rows of A that are independent of the rows before them.
LinearInvariants(A) ==
    LET keep == {i \in 1..Len(A) :
                    Rank(SubSeq(A, 1, i)) > Rank(SubSeq(A, 1, i - 1))}
        ks == SortedSeq(keep)
    IN [i \in 1..Len(ks) |-> A[ks[i]]]

\* M with its column p replaced by the column vector col.
ReplaceCol(M, p, col) ==
    [i \in 1..Len(M) |-> [j \in 1..Len(M) |-> IF j = p THEN col[i] ELSE M[i][j]]]

RECURSIVE Pow2(_)
Pow2(n) == IF n = 0 THEN 1 ELSE 2 * Pow2(n - 1)

\* The expressions of the substances in preferred in the other substances'
\* amounts (cur) and the initial amounts (init), each over the denominator
\* den, from as many invariants as there are substances to express.
linear_dependencies(inv, preferred) ==
    LET cols == {Index(s) : s \in preferred}
        k == Cardinality(cols)
        ok == {R \in SUBSET (1..Len(inv)) :
                  Cardinality(R) = k /\ Det(SubMatrix(inv, R, cols)) # 0}
        key(R) == SumSeq([i \in 1..Len(inv) |->
                             IF i \in R THEN Pow2(Len(inv) - i) ELSE 0])
    IN IF ok = {} THEN [status |-> "SingularElimination"]
       ELSE
         LET R == CHOOSE R1 \in ok : \A R2 \in ok : key(R2) <= key(R1)
             rs == SortedSeq(R)
             cs == SortedSeq(cols)
             M == SubMatrix(inv, R, cols)
             d == Det(M)
             sgn == IF d < 0 THEN -1 ELSE 1
             column(t) == [i \in 1..k |-> inv[rs[i]][Index(t)]]
             pos(s) == CHOOSE p \in 1..k : cs[p] = Index(s)
         IN [status |-> "ok",
             exprs |-> [s \in preferred |->
                 [den |-> sgn * d,
                  init |-> [t \in SpeciesSet |->
                              sgn * Det(ReplaceCol(M, pos(s), column(t)))],
                  cur |-> [t \in SpeciesSet |->
                              IF t \in preferred THEN 0
                              ELSE -sgn * Det(ReplaceCol(M, pos(s), column(t)))]]]]

\* The network's invariants.
invariants == LinearInvariants(composition_balance_vectors(substances))

\* The partially solved system built without a word on how many substances
\* were eliminated.
PartiallySolvedSystem_silent(preferred) ==
    LET ana == linear_dependencies(invariants, preferred)
    IN IF ana.status # "ok" THEN [status |-> ana.status]
       ELSE [status |-> "ok",
             analytic_exprs |-> ana.exprs,
             free_names |-> SelectSeq(Species, LAMBDA s : s \notin DOMAIN ana.exprs),
             diagnostic |-> "none"]

\* The system with the substances in preferred solved for analytically.
PartiallySolvedSystem(preferred) ==
    LET ana == linear_dependencies(invariants, preferred)
    IN IF ana.status # "ok" THEN [status |-> ana.status]
       ELSE [status |-> "ok",
             analytic_exprs |-> ana.exprs,
             free_names |-> SelectSeq(Species, LAMBDA s : s \notin DOMAIN ana.exprs),
             diagnostic |-> IF Cardinality(DOMAIN ana.exprs) < Len(invariants)
                            THEN "UnderdeterminedReduction" ELSE "none"]

Range(s) == {s[i] : i \in 1..Len(s)}

\* The value of an analytic expression at the free amounts y and the initial
\* amounts yinit.
Eval(e, y, yinit) ==
    (SumSeq([j \in 1..Len(Species) |->
        (IF Species[j] \in DOMAIN y THEN e.cur[Species[j]] * y[Species[j]] ELSE 0)
        + e.init[Species[j]] * yinit[Species[j]]])) \div e.den

\* The full state of a reduced system: the free amounts as they are, the
\* eliminated ones from their analytic expressions.
Reconstruct(sys, y, yinit) ==
    [s \in SpeciesSet |->
        IF s \in DOMAIN y THEN y[s] ELSE Eval(sys.analytic_exprs[s], y, yinit)]

\* The free substances' amounts of a full state.
Project(sys, full) == [s \in Range(sys.free_names) |-> full[s]]

\* The elimination sets tried.
ElimSets ==
    {S \in SUBSET SpeciesSet : 1 <= Cardinality(S) /\ Cardinality(S) <= MaxElim}

psysLN == PartiallySolvedSystem({"L", "N"})

\* The second reduced system made with L alone eliminated.
psysLA_only_L == PartiallySolvedSystem({"L"})

psysLA == PartiallySolvedSystem({"L", "A"})

-----------------------------------------------------------------------------
(* The Jacobian of the right-hand side, at sample points: the rate of a     *)
(* reaction is its rate constant times its active reactants' amounts, and   *)
(* an eliminated amount is its analytic expression in the free ones.        *)

RECURSIVE Pow(_, _)
Pow(b, e) == IF e = 0 THEN 1 ELSE b * Pow(b, e - 1)

RECURSIVE ProdSeq(_)
ProdSeq(s) == IF s = <<>> THEN 1 ELSE Head(s) * ProdSeq(Tail(s))

\* The system of all five substances, nothing solved for.
odesys ==
    [status |-> "ok",
     analytic_exprs |-> [s \in {} |-> 0],
     free_names |-> Species,
     diagnostic |-> "none"]

\* Rate constants, free amounts and initial amounts at which the symbolic
\* Jacobian is evaluated.
SamplePoints ==
    {[k |-> <<2, 3, 5, 7, 11>>,
      y |-> [N |-> 3, U |-> 5, A |-> 7, L |-> 4, NL |-> 6],
      yinit |-> [N |-> 9, U |-> 8, A |-> 10, L |-> 12, NL |-> 11]],
     [k |-> <<13, 3, 2, 5, 7>>,
      y |-> [N |-> 2, U |-> 9, A |-> 1, L |-> 5, NL |-> 3],
      yinit |-> [N |-> 6, U |-> 7, A |-> 4, L |-> 15, NL |-> 5]]}

\* The derivative of reaction r's rate in substance s at the full state.
dRate(k, r, s, full) ==
    IF r.reac[s] = 0 THEN 0
    ELSE r.reac[s] * k
         * ProdSeq([j \in 1..Len(Species) |->
               Pow(full[Species[j]],
                   r.reac[Species[j]] - (IF Species[j] = s THEN 1 ELSE 0))])

\* The common denominator of a system's analytic expressions.
Den(sys) ==
    IF DOMAIN sys.analytic_exprs = {} THEN 1
    ELSE sys.analytic_exprs[CHOOSE s \in DOMAIN sys.analytic_exprs : TRUE].den

\* The stoichiometric rows of a system's free substances, one column for
\* each reaction.
FreeStoich(sys) ==
    [i \in 1..Len(sys.free_names) |->
        [r \in 1..Len(rxns) |-> net_stoich(rxns[r])[sys.free_names[i]]]]

\* Den(sys) times the Jacobian of the free substances' derivatives in the
\* free substances, at sample point p.
Jacobian(sys, p) ==
    LET F == sys.free_names
        full == Reconstruct(sys, Project(sys, p.y), p.yinit)
        total(r, j) ==
            Den(sys) * dRate(p.k[r], rxns[r], F[j], full)
            + SumSeq([m \in 1..Len(Species) |->
                 IF Species[m] \in DOMAIN sys.analytic_exprs
                 THEN dRate(p.k[r], rxns[r], Species[m], full)
                      * sys.analytic_exprs[Species[m]].cur[F[j]]
                 ELSE 0])
    IN [i \in 1..Len(F) |-> [j \in 1..Len(F) |->
           SumSeq([r \in 1..Len(rxns) |-> FreeStoich(sys)[i][r] * total(r, j)])]]

\* The Jacobian is singular when its determinant vanishes identically.
jacobian_singular(sys) == \A p \in SamplePoints : Det(Jacobian(sys, p)) = 0

-----------------------------------------------------------------------------
(* Rate laws: the parameter mappings, the callbacks _gibbs and _eyring and  *)
(* the rate of a reaction evaluated against a mapping.  A temperature is a  *)
(* small integer, any other value is kept as its sign; the exponential is   *)
(* positive wherever it is defined.                                         *)

ParamNames ==
    {"R", "k_B", "h", "He_dis", "Se_dis", "Cp_dis", "Tref_dis",
     "He_u", "Se_u", "Cp_u", "Tref_u", "Ha_agg", "Sa_agg",
     "Ha_as", "Sa_as", "Ha_f", "Sa_f", "temperature"}
Names == ParamNames \cup SpeciesSet

Sign(x) == IF x > 0 THEN 1 ELSE IF x < 0 THEN -1 ELSE 0

\* A mapping: its keys, their values, and whether a missing key is filled
\* in by a default factory (defaultdict(float)) or raises (dict).
Mapping(default, keys, val) ==
    [default |-> default, keys |-> keys,
     val |-> [n \in Names |-> IF n \in keys THEN val[n] ELSE 0]]

\* The names the literal of params gives: every name but Se_u.
LiteralNames == ParamNames \ {"Se_u"}

\* params = dict(R=8.314472, ..., temperature=50 + 273.15)
params_literal ==
    Mapping(FALSE, LiteralNames,
            [n \in Names |-> IF n \in {"He_dis", "Se_dis", "Sa_as"} THEN -1 ELSE 1])

\* default_c0 = defaultdict(float, {'N': 1e-9, 'L': 1e-8})
default_c0 == Mapping(TRUE, {"N", "L"}, [n \in Names |-> 1])

\* m.copy(); the copy of a defaultdict keeps its default factory
copy(m) == m

\* m.update(other)
update(m, other) ==
    [default |-> m.default, keys |-> m.keys \cup other.keys,
     val |-> [n \in Names |-> IF n \in other.keys THEN other.val[n] ELSE m.val[n]]]

\* m[n]: the value, and for a missing key 0.0 from the default factory of a
\* defaultdict(float), KeyError from a dict.
getitem(m, n) ==
    IF n \in m.keys THEN [err |-> "none", v |-> m.val[n], defaulted |-> {}]
    ELSE IF m.default THEN [err |-> "none", v |-> 0, defaulted |-> {n}]
    ELSE [err |-> "KeyError", v |-> 0, defaulted |-> {}]

\* The names of an expression looked up in a mapping, one after the other.
Lookup(m, names) ==
    LET got == [i \in 1..Len(names) |-> getitem(m, names[i])]
    IN  [err |-> IF \E i \in 1..Len(names) : got[i].err # "none"
                 THEN "MissingParameter" ELSE "none",
         v |-> [i \in 1..Len(names) |-> got[i].v],
         defaulted |-> UNION {got[i].defaulted : i \in 1..Len(names)}]

\* _gibbs(args, T, R, backend) with backend = math: T/Tref, then its
\* logarithm, then the division by R*T.
_gibbs(args, T, R) ==
    LET Tref == args[4]
    IN  IF Tref = 0 THEN [err |-> "ZeroDivisionError", sign |-> 0]
        ELSE IF T * Tref <= 0 THEN [err |-> "ValueError", sign |-> 0]
        ELSE IF R * T = 0 THEN [err |-> "ZeroDivisionError", sign |-> 0]
        ELSE [err |-> "none", sign |-> 1]

\* _eyring(args, T, R, k_B, h, backend): k_B/h, times T, times the
\* exponential of a quotient by R*T.
_eyring(args, T, R, k_B, h) ==
    IF h = 0 \/ R * T = 0 THEN [err |-> "ZeroDivisionError", sign |-> 0]
    ELSE [err |-> "none", sign |-> Sign(k_B) * Sign(h) * Sign(T)]

\* An instance of Gibbs evaluated against a mapping.
Gibbs(unique_keys, m) ==
    LET a == Lookup(m, unique_keys)
        p == Lookup(m, <<"temperature", "R">>)
        r == _gibbs(a.v, p.v[1], p.v[2])
        missing == a.err # "none" \/ p.err # "none"
    IN  [kind |-> "Gibbs", T |-> p.v[1], Tref |-> a.v[4],
         absent |-> (Range(unique_keys) \cup {"temperature", "R"}) \ m.keys,
         err |-> IF missing THEN "MissingParameter" ELSE r.err,
         sign |-> IF missing THEN 0 ELSE r.sign,
         defaulted |-> a.defaulted \cup p.defaulted]

\* An instance of Eyring evaluated against a mapping.
Eyring(unique_keys, m) ==
    LET a == Lookup(m, unique_keys)
        p == Lookup(m, <<"temperature", "R", "k_B", "h">>)
        r == _eyring(a.v, p.v[1], p.v[2], p.v[3], p.v[4])
        missing == a.err # "none" \/ p.err # "none"
    IN  [kind |-> "Eyring", T |-> p.v[1], Tref |-> 1,
         absent |-> (Range(unique_keys) \cup {"temperature", "R", "k_B", "h"}) \ m.keys,
         err |-> IF missing THEN "MissingParameter" ELSE r.err,
         sign |-> IF missing THEN 0 ELSE r.sign,
         defaulted |-> a.defaulted \cup p.defaulted]

\* The factor of a reaction that has no equilibrium constant in its rate.
NoExpr ==
    [kind |-> "none", T |-> 1, Tref |-> 1, absent |-> {},
     err |-> "none", sign |-> 1, defaulted |-> {}]

thermo_dis == <<"He_dis", "Se_dis", "Cp_dis", "Tref_dis">>
thermo_u == <<"He_u", "Se_u", "Cp_u", "Tref_u">>
kinetics_agg == <<"Ha_agg", "Sa_agg">>
kinetics_as == <<"Ha_as", "Sa_as">>
kinetics_f == <<"Ha_f", "Sa_f">>

\* The rate laws of rsys.rxns: the forward reaction of an equilibrium has
\* the equilibrium constant times the rate constant of the backward one.
rate_laws ==
    << [Keq |-> thermo_dis, kb |-> kinetics_as],
       [Keq |-> <<>>,       kb |-> kinetics_as],
       [Keq |-> thermo_u,   kb |-> kinetics_f],
       [Keq |-> <<>>,       kb |-> kinetics_f],
       [Keq |-> <<>>,       kb |-> kinetics_agg] >>

\* rxn.rate_expr()(m, reaction=rxn): the rate constant times the amounts of
\* the active reactants, all looked up in m.
rate_expr(k, m) ==
    LET law == rate_laws[k]
        Keq == IF law.Keq = <<>> THEN NoExpr ELSE Gibbs(law.Keq, m)
        kb == Eyring(law.kb, m)
        active == SelectSeq(Species, LAMBDA s : rxns[k].reac[s] > 0)
        conc == Lookup(m, active)
        firstErr == IF kb.err # "none" THEN kb.err
                    ELSE IF Keq.err # "none" THEN Keq.err
                    ELSE conc.err
    IN  [name |-> rxns[k].name, Keq |-> Keq, kb |-> kb, err |-> firstErr,
         sign |-> IF firstErr # "none" THEN 0
                  ELSE Keq.sign * kb.sign
                       * (IF \E i \in 1..Len(active) : conc.v[i] = 0 THEN 0 ELSE 1),
         defaulted |-> Keq.defaulted \cup kb.defaulted \cup conc.defaulted]

\* for rxn in rsys.rxns: print(...): the rates up to the first that raises.
RECURSIVE RateLoop(_, _)
RateLoop(m, k) ==
    IF k > Len(rxns) THEN <<>>
    ELSE LET r == rate_expr(k, m)
         IN  IF r.err # "none" THEN <<r>> ELSE <<r>> \o RateLoop(m, k + 1)

\* Se0_from_Tm(Tm, token) with Tm = 48.2 + 273.15 read against params.
Se0_from_Tm(m, token) ==
    LET dH0 == getitem(m, "He_" \o token)
        T0  == getitem(m, "Tref_" \o token)
        dCp == getitem(m, "Cp_" \o token)
    IN  IF dH0.err # "none" \/ T0.err # "none" \/ dCp.err # "none"
        THEN [err |-> "KeyError", v |-> 0]
        ELSE IF T0.v = 0 THEN [err |-> "ZeroDivisionError", v |-> 0]
        ELSE IF T0.v < 0 THEN [err |-> "ValueError", v |-> 0]
        ELSE [err |-> "none", v |-> 1]

-----------------------------------------------------------------------------
(* Integration: a reaction with a positive rate moves one unit.             *)

\* Mass action: the rate is positive when every active reactant is present.
rate_positive(r, full) == \A s \in SpeciesSet : full[s] >= r.reac[s]

\* One event of reaction r in a reduced system, whose rate is evaluated on
\* the reconstructed full state.
StepReduced(sys, y, yinit, r) ==
    IF rate_positive(r, Reconstruct(sys, y, yinit))
    THEN [s \in DOMAIN y |-> y[s] + net_stoich(r)[s]]
    ELSE y

\* The states the variables of the other phases rest in.
IdleInt ==
    /\ c0 = [s \in SpeciesSet |-> 0]
    /\ c = c0
    /\ yLN = Project(psysLN, c0)
    /\ yLA = Project(psysLA, c0)

IdleRed ==
    /\ factory = [made |-> FALSE, preferred |-> {}]
    /\ y0 = [s \in SpeciesSet |-> s \o "0"]
    /\ results = <<>>
    /\ psys = [status |-> "none"]
    /\ odesys_jac = "unknown"

IdleNet ==
    /\ cand = [subst |-> substances, rxns |-> rxns]
    /\ rsys = [status |-> "none"]
    /\ invs = <<>>

IdleRate ==
    /\ params = params_literal
    /\ params_c0 = default_c0
    /\ rates = <<>>
    /\ err = "none"

Init ==
    /\ c0 \in [SpeciesSet -> 0..MaxC0]
    /\ c = c0
    /\ yLN = Project(psysLN, c0)
    /\ yLA = Project(psysLA, c0)
    /\ IdleRed
    /\ IdleNet
    /\ IdleRate

Fire(r) ==
    /\ rate_positive(r, c)
    /\ c' = [s \in SpeciesSet |-> c[s] + net_stoich(r)[s]]
    /\ yLN' = StepReduced(psysLN, yLN, c0, r)
    /\ yLA' = StepReduced(psysLA, yLA, c0, r)
    /\ UNCHANGED <<c0, redVars, netVars, rateVars>>

Dissociation == Fire(rxns[1])
Association  == Fire(rxns[2])
Unfolding    == Fire(rxns[3])
Folding      == Fire(rxns[4])
Aggregation  == Fire(rxns[5])

Next ==
    \/ Dissociation
    \/ Association
    \/ Unfolding
    \/ Folding
    \/ Aggregation

Spec == Init /\ [][Next]_vars

-----------------------------------------------------------------------------
(* Reduction: the calls the notebook makes on the full system, on the       *)
(* callback of linear_dependencies and on the partially solved system.      *)

\* What one call of the callback returns for the mapping y0map of substances
\* to initial symbols: the expressions, their initial part in the symbols.
analytic_factory(preferred, y0map) ==
    LET res == linear_dependencies(invariants, preferred)
    IN IF res.status # "ok" THEN res
       ELSE [status |-> "ok",
             exprs |-> [s \in DOMAIN res.exprs |->
                 [den |-> res.exprs[s].den,
                  cur |-> res.exprs[s].cur,
                  init |-> [sym \in {y0map[u] : u \in SpeciesSet} |->
                      SumSeq([j \in 1..Len(Species) |->
                          IF y0map[Species[j]] = sym
                          THEN res.exprs[s].init[Species[j]] ELSE 0])]]]]

\* The callback consuming the list it was made with.
preferred_consumed(preferred, res) ==
    IF res.status = "ok" THEN preferred \ DOMAIN res.exprs ELSE preferred

\* The list the callback holds after a call: the call works on a copy.
preferred_after_call(preferred, res) == preferred

InitRed ==
    /\ IdleInt
    /\ IdleRed
    /\ IdleNet
    /\ IdleRate

\* odesys.jacobian_singular()
OdesysJacobianSingular ==
    /\ odesys_jac = "unknown"
    /\ odesys_jac' = IF jacobian_singular(odesys) THEN "singular" ELSE "regular"
    /\ UNCHANGED <<intVars, factory, y0, results, psys, netVars, rateVars>>

\* extra['linear_dependencies'](preferred)
LinearDependencies ==
    /\ ~factory.made
    /\ \E S \in ElimSets : factory' = [made |-> TRUE, preferred |-> S]
    /\ UNCHANGED <<intVars, y0, results, psys, odesys_jac, netVars, rateVars>>

\* analytic(None, y0, None, sympy)
CallFactory ==
    /\ factory.made
    /\ Len(results) < MaxCalls
    /\ LET res == analytic_factory(factory.preferred, y0)
       IN /\ results' = Append(results, res)
          /\ factory' = [factory EXCEPT
                            !.preferred = preferred_after_call(factory.preferred, res)]
    /\ UNCHANGED <<intVars, y0, psys, odesys_jac, netVars, rateVars>>

\* PartiallySolvedSystem(odesys, analytic, **no_invar): it calls the callback.
BuildPartiallySolved ==
    /\ factory.made
    /\ psys.status = "none"
    /\ LET res == analytic_factory(factory.preferred, y0)
           sys == PartiallySolvedSystem(factory.preferred)
       IN /\ psys' = [status |-> sys.status, sys |-> sys, jac |-> "unknown",
                      asked |-> factory.preferred]
          /\ factory' = [factory EXCEPT
                            !.preferred = preferred_after_call(factory.preferred, res)]
    /\ UNCHANGED <<intVars, y0, results, odesys_jac, netVars, rateVars>>

\* psys.jacobian_singular()
PsysJacobianSingular ==
    /\ psys.status = "ok"
    /\ psys.jac = "unknown"
    /\ psys' = [psys EXCEPT
                   !.jac = IF jacobian_singular(psys.sys) THEN "singular" ELSE "regular"]
    /\ UNCHANGED <<intVars, factory, y0, results, odesys_jac, netVars, rateVars>>

NextRed ==
    \/ OdesysJacobianSingular
    \/ LinearDependencies
    \/ CallFactory
    \/ BuildPartiallySolved
    \/ PsysJacobianSingular

SpecRed == InitRed /\ [][NextRed]_vars

-----------------------------------------------------------------------------
(* Construction: a reaction system is made of candidate substances and      *)
(* reactions, and its invariants are read off it.                           *)

\* The construction without its balance check.
ReactionSystem_unchecked(rxnlist, subst) ==
    [status |-> "ok", rxns |-> rxnlist, substances |-> subst]

\* ReactionSystem(rxns, substances): an error if a reaction violates mass
\* conservation.
ReactionSystem(rxnlist, subst) ==
    IF \A k \in 1..Len(rxnlist) : \A m \in 1..Len(Components) :
           composition_violation(subst, rxnlist[k])[m] = 0
    THEN [status |-> "ok", rxns |-> rxnlist, substances |-> subst]
    ELSE [status |-> "error"]

\* The unfolding entered with its spectator on the product side only.
eq_u_producing_L == Reaction({"N"}, {"U"}, {}, {"L"}, "protein unfolding")

CompSet == {[protein |-> p, ligand |-> l] : p \in 0..MaxCount, l \in 0..MaxCount}

\* Candidate substances: N and U as in the notebook, the others with any
\* composition.
CandSubst ==
    {sub \in [SpeciesSet -> CompSet] :
        sub["N"] = substances["N"] /\ sub["U"] = substances["U"]}

\* Candidate reaction lists: any of the notebook's equilibria and its
\* irreversible reaction, or all of them and one mis-entered reaction.
CandRxns ==
    {(IF b[1] THEN as_reactions(eq_dis, "ligand-protein association") ELSE <<>>)
     \o (IF b[2] THEN as_reactions(eq_u, "protein folding") ELSE <<>>)
     \o (IF b[3] THEN <<r_agg>> ELSE <<>>) : b \in [1..3 -> BOOLEAN]}
    \cup {rxns \o <<bad>> :
            bad \in {r_agg_consuming_L, eq_dis_without_L, eq_u_producing_L}}

InitNet ==
    /\ IdleInt
    /\ IdleRed
    /\ cand \in [subst : CandSubst, rxns : CandRxns]
    /\ rsys = [status |-> "none"]
    /\ invs = <<>>
    /\ IdleRate

\* rsys = ReactionSystem(..., substances, ...)
Construct ==
    /\ rsys.status = "none"
    /\ rsys' = ReactionSystem(cand.rxns, cand.subst)
    /\ UNCHANGED <<intVars, redVars, cand, invs, rateVars>>

\* rsys.composition_balance_vectors()
CompositionBalance ==
    /\ rsys.status = "ok"
    /\ invs = <<>>
    /\ invs' = LinearInvariants(composition_balance_vectors(rsys.substances))
    /\ UNCHANGED <<intVars, redVars, cand, rsys, rateVars>>

NextNet ==
    \/ Construct
    \/ CompositionBalance

SpecNet == InitNet /\ [][NextNet]_vars

-----------------------------------------------------------------------------
(* Rates: the cells that complete params and print the rate of every       *)
(* reaction, run in any order, on a params whose temperatures were edited   *)
(* and from whose literal some names were left out.                         *)

Temps == -MaxTemp..MaxTemp

InitRate ==
    /\ IdleInt
    /\ IdleRed
    /\ IdleNet
    /\ \E T \in Temps, Tdis \in Temps, Tu \in Temps, left_out \in SUBSET LiteralNames :
          /\ Cardinality(left_out) <= MaxMissing
          /\ params = Mapping(FALSE, LiteralNames \ left_out,
                              [params_literal.val EXCEPT !["temperature"] = T,
                                                         !["Tref_dis"] = Tdis,
                                                         !["Tref_u"] = Tu])
    /\ params_c0 = default_c0
    /\ rates = <<>>
    /\ err = "none"

\* params['Se_u'] = Se0_from_Tm(48.2+273.15, 'u')
SetSe_u ==
    LET r == Se0_from_Tm(params, "u")
    IN  /\ err' = r.err
        /\ params' = IF r.err # "none" THEN params
                     ELSE Mapping(FALSE, params.keys \cup {"Se_u"},
                                  [params.val EXCEPT !["Se_u"] = r.v])
        /\ UNCHANGED <<intVars, redVars, netVars, params_c0, rates>>

\* params_c0 = default_c0.copy(); params_c0.update(params); the loop that
\* prints the rates.  A key the default factory filled in stays in params_c0.
PrintRates ==
    LET m == update(copy(default_c0), params)
        rs == RateLoop(m, 1)
        filled == UNION {rs[i].defaulted : i \in 1..Len(rs)}
    IN  /\ rates' = rs
        /\ err' = rs[Len(rs)].err
        /\ params_c0' = [m EXCEPT !.keys = m.keys \cup filled]
        /\ UNCHANGED <<intVars, redVars, netVars, params>>

NextRate ==
    \/ SetSe_u
    \/ PrintRates

SpecRate == InitRate /\ [][NextRate]_vars

-----------------------------------------------------------------------------
(* Properties of the integration.                                           *)

Dot(v, full) == SumSeq([j \in 1..Len(Species) |-> v[j] * full[Species[j]]])

\* The partially solved systems of every accepted elimination set.
ValidSystems ==
    {PartiallySolvedSystem(S) :
        S \in {S1 \in ElimSets : PartiallySolvedSystem(S1).status = "ok"}}

\* C1: after any sequence of reaction events every linear invariant has its
\* initial value, in particular the protein total N + U + A + NL and the
\* ligand total L + NL, and every invariant is orthogonal to every
\* reaction's net stoichiometry.
InvariantsConserved ==
    /\ \A i \in 1..Len(invariants) : Dot(invariants[i], c) = Dot(invariants[i], c0)
    /\ c["N"] + c["U"] + c["A"] + c["NL"] = c0["N"] + c0["U"] + c0["A"] + c0["NL"]
    /\ c["L"] + c["NL"] = c0["L"] + c0["NL"]
    /\ \A i \in 1..Len(invariants) : \A k \in 1..Len(rxns) :
          Dot(invariants[i], net_stoich(rxns[k])) = 0

\* A state in which binding, unfolding and aggregation have all moved amounts.
InvariantsConservedWitness ==
    /\ c["A"] > c0["A"]
    /\ c["NL"] > c0["NL"]
    /\ c["U"] # c0["U"]
    /\ c["L"] < c0["L"]

\* C3: at every step the system without L, N and the system without L, A,
\* each with its eliminated substances reconstructed, give the state of the
\* full five-substance system (and so the same state as each other).
ReductionEquivalence ==
    /\ Reconstruct(psysLN, yLN, c0) = c
    /\ Reconstruct(psysLA, yLA, c0) = c
    /\ DOMAIN yLN # DOMAIN yLA

\* A state after aggregation and binding in which the two reduced systems
\* hold different free amounts.
ReductionEquivalenceWitness ==
    /\ c["A"] > c0["A"]
    /\ c["NL"] # c0["NL"]
    /\ yLN["A"] = c["A"]
    /\ yLA["N"] = c["N"]
    /\ c["N"] # c["A"]

\* C4: for every accepted elimination set, projecting the current state on
\* the free substances and evaluating the analytic expressions on the free
\* amounts and the initial amounts gives back the current state; for L, N
\* the expressions are L = L0 + NL0 - NL and
\* N = N0 + U0 + A0 + NL0 - U - A - NL.
RecoveryExact ==
    /\ \A sys \in ValidSystems : Reconstruct(sys, Project(sys, c), c0) = c
    /\ c["L"] = c0["L"] + c0["NL"] - c["NL"]
    /\ c["N"] = c0["N"] + c0["U"] + c0["A"] + c0["NL"] - c["U"] - c["A"] - c["NL"]
    /\ Eval(psysLN.analytic_exprs["L"], Project(psysLN, c), c0) = c["L"]
    /\ Eval(psysLN.analytic_exprs["N"], Project(psysLN, c), c0) = c["N"]

\* A state whose eliminated amounts all differ from their initial values.
RecoveryExactWitness ==
    /\ c["L"] # c0["L"]
    /\ c["N"] # c0["N"]
    /\ c["A"] # c0["A"]
    /\ c["NL"] # c0["NL"]
    /\ Cardinality(ValidSystems) >= 12

-----------------------------------------------------------------------------
(* Properties of the construction and of the reduction.                     *)

\* The amount of each component on one side of a reaction, the side given
\* by its active and its spectator stoichiometry.
SideComposition(subst, active, inactive) ==
    [m \in 1..Len(Components) |->
        SumSeq([j \in 1..Len(Species) |->
            (active[Species[j]] + inactive[Species[j]])
            * subst[Species[j]][Components[m]]])]

Balanced(subst, r) ==
    SideComposition(subst, r.reac, r.inact_reac)
        = SideComposition(subst, r.prod, r.inact_prod)

ReductionPartitions ==
    /\ psys.status = "ok" =>
          LET free == Range(psys.sys.free_names)
              elim == DOMAIN psys.sys.analytic_exprs
          IN /\ elim = psys.asked
             /\ free \cap elim = {}
             /\ free \cup elim = SpeciesSet
             /\ Len(psys.sys.free_names) = Len(Species) - Cardinality(psys.asked)
             /\ Cardinality(psys.asked) = 2 => Len(psys.sys.free_names) = 3
             /\ psys.asked = {"L", "N"} => free = {"U", "A", "NL"}
             /\ psys.asked = {"L", "A"} => free = {"U", "N", "NL"}
    /\ Len(odesys.free_names) = 5
    /\ Cardinality(DOMAIN c) = 5
    /\ DOMAIN yLN = {"U", "A", "NL"}
    /\ DOMAIN yLA = {"U", "N", "NL"}

\* The system without L, A has been built.
ReductionPartitionsWitness ==
    /\ psys.status = "ok"
    /\ psys.asked = {"L", "A"}
    /\ psys.sys.free_names = <<"N", "U", "NL">>

\* The pairs of substances that both carry only protein.
ProteinOnlyPairs == {{"N", "U"}, {"N", "A"}, {"U", "A"}}

\* C6: the callback's call fails with SingularElimination and returns no
\* expressions when the invariants' coefficients in the substances to
\* eliminate are not invertible; among the pairs these are exactly the pairs
\* that both carry only protein ({N, U}, {N, A}, {U, A}), while {L, N},
\* {L, A} and {L, NL} are accepted.
SingularEliminationRejected ==
    \A i \in 1..Len(results) :
        LET S == factory.preferred
            res == results[i]
        IN /\ res.status \in {"ok", "SingularElimination"}
           /\ res.status = "SingularElimination" => DOMAIN res = {"status"}
           /\ res.status = "ok" => DOMAIN res.exprs = S
           /\ psys.status # "none" => psys.status = res.status
           /\ Cardinality(S) = 2 =>
                 /\ res.status = "SingularElimination" <=> S \in ProteinOnlyPairs
                 /\ res.status = "SingularElimination" <=>
                       \A s \in S : substances[s] = [protein |-> 1, ligand |-> 0]
                 /\ res.status = "SingularElimination" <=>
                       \E a, b \in S :
                          /\ a # b
                          /\ substances[a].protein * substances[b].ligand
                               = substances[b].protein * substances[a].ligand
           /\ S \in {{"L", "N"}, {"L", "A"}, {"L", "NL"}} => res.status = "ok"

\* The callback made for N, A has been called and has failed.
SingularEliminationRejectedWitness ==
    /\ psys.status = "SingularElimination"
    /\ psys.asked = {"N", "A"}
    /\ Len(results) >= 1
    /\ results[1] = [status |-> "SingularElimination"]

CombinationVanishes(M) ==
    \E w \in [1..Len(M) -> -1..1] :
        /\ \E i \in 1..Len(M) : w[i] # 0
        /\ \A r \in 1..NCols(M) : SumSeq([i \in 1..Len(M) |-> w[i] * M[i][r]]) = 0

\* C9: the Jacobian of the full system is singular, the two invariants
\* being dependencies between the substances' derivatives; the Jacobian of
\* a system without 2 substances that passed the invertibility check is not
\* singular, and no combination of its free substances' derivatives
\* vanishes.
JacobianSingularity ==
    /\ odesys_jac # "regular"
    /\ Len(invariants) = 2
    /\ \A i \in 1..Len(invariants) : \A k \in 1..Len(rxns) :
          Dot(invariants[i], net_stoich(rxns[k])) = 0
    /\ CombinationVanishes(FreeStoich(odesys))
    /\ (psys.status = "ok" /\ Cardinality(psys.asked) = 2) =>
          /\ psys.jac # "singular"
          /\ Len(psys.sys.free_names) = 3
          /\ Rank(FreeStoich(psys.sys)) = 3
          /\ ~CombinationVanishes(FreeStoich(psys.sys))

\* The full system's Jacobian has been found singular and that of a system
\* without 2 substances regular.
JacobianSingularityWitness ==
    /\ odesys_jac = "singular"
    /\ psys.status = "ok"
    /\ Cardinality(psys.asked) = 2
    /\ psys.jac = "regular"

Transpose(M) == [j \in 1..NCols(M) |-> [i \in 1..Len(M) |-> M[i][j]]]

\* C10: the invariants read off a reaction system are independent and as
\* many as the rank of its composition matrix, each orthogonal to every
\* reaction; for the notebook's substances there are 2, and 2 is the largest
\* number of substances an accepted elimination set holds.
InvariantCount ==
    /\ invs # <<>> =>
          /\ Len(invs) = Rank(Transpose(composition_balance_vectors(cand.subst)))
          /\ ~CombinationVanishes(invs)
          /\ \A i \in 1..Len(invs) : \A k \in 1..Len(rsys.rxns) :
                Dot(invs[i], net_stoich(rsys.rxns[k])) = 0
          /\ cand.subst = substances =>
                /\ Len(invs) = 2
                /\ invs = invariants
                /\ \A S \in SUBSET SpeciesSet :
                      linear_dependencies(invs, S).status = "ok" => Cardinality(S) <= 2
                /\ \E S \in SUBSET SpeciesSet :
                      /\ Cardinality(S) = 2
                      /\ linear_dependencies(invs, S).status = "ok"

\* The invariants of the notebook's reaction system have been read off.
InvariantCountWitness ==
    /\ rsys.status = "ok"
    /\ cand.subst = substances
    /\ cand.rxns = rxns
    /\ Len(invs) = 2

\* C14: A is a terminal product: no reaction has A among its reactants,
\* active or spectator, and no reaction event lowers the amount of A.
ATerminalProduct ==
    [][/\ \A k \in 1..Len(rxns) :
             rxns[k].reac["A"] = 0 /\ rxns[k].inact_reac["A"] = 0
       /\ c'["A"] >= c["A"]
       /\ yLN'["A"] >= yLN["A"]]_vars

\* A state in which aggregation has raised the amount of A while the other
\* reactions have moved amounts too.
ATerminalProductWitness ==
    /\ c["A"] > c0["A"]
    /\ c["U"] < c0["U"]
    /\ c["NL"] # c0["NL"]

-----------------------------------------------------------------------------
(* Properties of the rate laws.                                             *)

\* C11: evaluating a rate law against a mapping from which one of its unique
\* keys or shared parameter names is absent fails with MissingParameter, also
\* against params_c0, and no absent name is replaced by a default value.
MissingParameterRaised ==
    \A i \in 1..Len(rates) : \A law \in {rates[i].Keq, rates[i].kb} :
        law.absent # {} => law.err = "MissingParameter" /\ law.defaulted = {}

\* C12: with every name present and R positive, _gibbs fails and returns no
\* value whenever T <= 0 or Tref <= 0.
GibbsDomainError ==
    \A i \in 1..Len(rates) :
        LET K == rates[i].Keq
        IN  (K.kind = "Gibbs" /\ K.absent = {} /\ (K.T <= 0 \/ K.Tref <= 0))
                => K.err \in {"ValueError", "ZeroDivisionError"}

\* C13: with every name present, _eyring fails whenever T <= 0, and so
\* returns no negative and no zero rate constant for such a temperature.
EyringDomainError ==
    \A i \in 1..Len(rates) :
        LET k == rates[i].kb
        IN  (k.absent = {} /\ k.T <= 0)
                => k.err \in {"ValueError", "ZeroDivisionError"}

====
